---- MODULE Spec2Model ----
(***************************************************************************)
(* Model of AccountEntity (msal-common, cache/entities/AccountEntity.ts):  *)
(* the account record of the token cache, its key derivation and its two   *)
(* factories.                                                              *)
(*                                                                         *)
(* A JavaScript value is a record [t, s]: t is its type tag ("undefined",  *)
(* "null", "string") and s, for a string, the sequence of its characters   *)
(* (one-character strings).  Strings are sequences so that toLowerCase,    *)
(* join and concatenation are computed character by character.             *)
(***************************************************************************)
EXTENDS Integers, Sequences, FiniteSets

VARIABLES account, op, args, result, log

vars == <<account, op, args, result, log>>

\* ---------------------------------------------------------------- bounds

\* Longest homeAccountId / environment string the key specification draws.
MaxLen == 2

\* Longest console log kept (generateType's diagnostic entries).
MaxLog == 2

\* ------------------------------------------------------ JavaScript values

Undefined == [t |-> "undefined", s |-> <<>>]

Null == [t |-> "null", s |-> <<>>]

Str(chars) == [t |-> "string", s |-> chars]

EmptyString == Str(<<>>)

IsString(v) == v.t = "string"

\* Absent in the JavaScript sense: undefined or null.
IsNullish(v) == v.t \in {"undefined", "null"}

\* ToBoolean(v) = false, for the values of this model.
IsFalsy(v) == IsNullish(v) \/ (IsString(v) /\ v.s = <<>>)

\* ToString(v), as string concatenation and template literals apply it.
ToString(v) ==
    CASE v.t = "undefined" -> <<"u", "n", "d", "e", "f", "i", "n", "e", "d">>
      [] v.t = "null" -> <<"n", "u", "l", "l">>
      [] OTHER -> v.s

\* `v || ""`.
OrEmpty(v) == IF IsFalsy(v) THEN EmptyString ELSE v

UpperLetters ==
    <<"A", "B", "C", "D", "E", "F", "G", "H", "I", "J", "K", "L", "M",
      "N", "O", "P", "Q", "R", "S", "T", "U", "V", "W", "X", "Y", "Z">>

LowerLetters ==
    <<"a", "b", "c", "d", "e", "f", "g", "h", "i", "j", "k", "l", "m",
      "n", "o", "p", "q", "r", "s", "t", "u", "v", "w", "x", "y", "z">>

UpperCaseChars == {UpperLetters[i] : i \in DOMAIN UpperLetters}

\* The lower-case letter of each upper-case letter.
LowerOf ==
    [c \in UpperCaseChars |->
        LowerLetters[CHOOSE i \in DOMAIN UpperLetters : UpperLetters[i] = c]]

\* toLowerCase on one character: only the upper-case letters change.
LowerChar(c) == IF c \in UpperCaseChars THEN LowerOf[c] ELSE c

\* String.prototype.toLowerCase on a character sequence.
ToLowerCase(chars) == [i \in 1..Len(chars) |-> LowerChar(chars[i])]

\* Array.prototype.join: an undefined or null element contributes the empty
\* string, any other element its ToString.
JoinElement(v) == IF IsNullish(v) THEN <<>> ELSE ToString(v)

RECURSIVE Join(_, _)
Join(arr, sep) ==
    IF Len(arr) = 0 THEN <<>>
    ELSE IF Len(arr) = 1 THEN JoinElement(arr[1])
    ELSE JoinElement(arr[1]) \o sep \o Join(Tail(arr), sep)

\* ------------------------------------------------------------- constants

\* Separators.CACHE_KEY_SEPARATOR, as the key schema comments spell it.
CACHE_KEY_SEPARATOR == <<"-">>

\* Separators.CLIENT_INFO_SEPARATOR.
CLIENT_INFO_SEPARATOR == <<":">>

\* CacheAccountType: the authority type strings.
MSSTS_ACCOUNT_TYPE == Str(<<"M", "S", "S", "T", "S">>)

ADFS_ACCOUNT_TYPE == Str(<<"A", "D", "F", "S">>)

MSAV1_ACCOUNT_TYPE == Str(<<"M", "S", "A">>)

GENERIC_ACCOUNT_TYPE == Str(<<"G", "e", "n", "e", "r", "i", "c">>)

\* CacheType: the numeric cache-type tags.
CacheType == [ADFS |-> 1001, MSA |-> 1002, MSSTS |-> 1003, GENERIC |-> 1004]

Num(n) == [t |-> "number", s |-> <<>>, n |-> n]

LoginWindowsNet ==
    <<"l", "o", "g", "i", "n", ".", "w", "i", "n", "d", "o", "w", "s", ".",
      "n", "e", "t">>

LoginMicrosoftOnlineCom ==
    <<"l", "o", "g", "i", "n", ".", "m", "i", "c", "r", "o", "s", "o", "f",
      "t", "o", "n", "l", "i", "n", "e", ".", "c", "o", "m">>

\* EnvironmentAliases: the hosts known to be equivalent for caching.
EnvironmentAliases == {Str(LoginWindowsNet)}

\* PreferredCacheEnvironment: the host the aliases collapse to.
PreferredCacheEnvironment == Str(LoginMicrosoftOnlineCom)

\* StringUtils.isEmpty: undefined, falsy or of length 0.
StringUtilsIsEmpty(v) == IsFalsy(v)

\* ------------------------------------------------------------ the record

\* new AccountEntity(): every declared field is still undefined.
NewAccountEntity ==
    [homeAccountId |-> Undefined, environment |-> Undefined,
     realm |-> Undefined, localAccountId |-> Undefined,
     username |-> Undefined, authorityType |-> Undefined,
     name |-> Undefined, clientInfo |-> Undefined,
     lastModificationTime |-> Undefined, lastModificationApp |-> Undefined]

\* No record has been constructed yet.
NoAccount == [none |-> TRUE]

Returned(v) == [kind |-> "return", val |-> v]

Thrown(e) == [kind |-> "throw", val |-> e]

NoResult == [kind |-> "none", val |-> Undefined]

NoArgs == [none |-> TRUE]

\* ---------------------------------------------------------- key derivation

\* generateAccountId without the final toLowerCase.
generateAccountId_NoLowerCase(this) ==
    LET accountId == <<this.homeAccountId, this.environment>>
    IN  Str(Join(accountId, CACHE_KEY_SEPARATOR))

\* AccountEntity.generateAccountId
generateAccountId(this) ==
    LET accountId == <<this.homeAccountId, this.environment>>
    IN  Str(ToLowerCase(Join(accountId, CACHE_KEY_SEPARATOR)))

\* generateAccountCacheKey with the joined array missing its third element
\* when the tenant id is falsy.
generateAccountCacheKey_NoEmptyRealm(accountInterface) ==
    LET accountKey ==
            IF IsFalsy(accountInterface.tenantId)
            THEN <<accountInterface.homeAccountId,
                   OrEmpty(accountInterface.environment)>>
            ELSE <<accountInterface.homeAccountId,
                   OrEmpty(accountInterface.environment),
                   accountInterface.tenantId>>
    IN  Str(ToLowerCase(Join(accountKey, CACHE_KEY_SEPARATOR)))

\* generateAccountKey with the username joined into the key.
generateAccountKey_WithUsername(this) ==
    LET accountKey == <<this.homeAccountId, OrEmpty(this.environment),
                        OrEmpty(this.realm), OrEmpty(this.username)>>
    IN  Str(ToLowerCase(Join(accountKey, CACHE_KEY_SEPARATOR)))

\* static AccountEntity.generateAccountCacheKey
generateAccountCacheKey(accountInterface) ==
    LET accountKey == <<accountInterface.homeAccountId,
                        OrEmpty(accountInterface.environment),
                        OrEmpty(accountInterface.tenantId)>>
    IN  Str(ToLowerCase(Join(accountKey, CACHE_KEY_SEPARATOR)))

\* AccountEntity.generateAccountKey
generateAccountKey(this) ==
    generateAccountCacheKey(
        [homeAccountId |-> this.homeAccountId,
         environment |-> this.environment,
         tenantId |-> this.realm,
         username |-> this.username])

\* AccountEntity.getAccountInfo
getAccountInfo(this) ==
    [homeAccountId |-> this.homeAccountId,
     environment |-> this.environment,
     tenantId |-> this.realm,
     username |-> this.username]

\* The console entry generateType writes in its default branch.
UnexpectedAccountType ==
    Str(<<"U", "n", "e", "x", "p", "e", "c", "t", "e", "d", " ",
          "a", "c", "c", "o", "u", "n", "t", " ", "t", "y", "p", "e">>)

\* generateType with the MSA case returning the ADFS tag.
generateType_MsaAsAdfs(this) ==
    CASE this.authorityType = ADFS_ACCOUNT_TYPE ->
            [value |-> Num(CacheType.ADFS), logged |-> <<>>]
      [] this.authorityType = MSAV1_ACCOUNT_TYPE ->
            [value |-> Num(CacheType.ADFS), logged |-> <<>>]
      [] this.authorityType = MSSTS_ACCOUNT_TYPE ->
            [value |-> Num(CacheType.MSSTS), logged |-> <<>>]
      [] this.authorityType = GENERIC_ACCOUNT_TYPE ->
            [value |-> Num(CacheType.GENERIC), logged |-> <<>>]
      [] OTHER ->
            [value |-> Null, logged |-> <<UnexpectedAccountType>>]

\* AccountEntity.generateType: the value returned and the console entries
\* written.  The switch compares with ===.
generateType(this) ==
    CASE this.authorityType = ADFS_ACCOUNT_TYPE ->
            [value |-> Num(CacheType.ADFS), logged |-> <<>>]
      [] this.authorityType = MSAV1_ACCOUNT_TYPE ->
            [value |-> Num(CacheType.MSA), logged |-> <<>>]
      [] this.authorityType = MSSTS_ACCOUNT_TYPE ->
            [value |-> Num(CacheType.MSSTS), logged |-> <<>>]
      [] this.authorityType = GENERIC_ACCOUNT_TYPE ->
            [value |-> Num(CacheType.GENERIC), logged |-> <<>>]
      [] OTHER ->
            [value |-> Null, logged |-> <<UnexpectedAccountType>>]

\* ------------------------------------------------------------- collaborators

\* Client-info blobs the token response can carry: two that decode and one
\* that does not.
BlobA == Str(<<"e", "y", "A">>)

BlobB == Str(<<"e", "y", "B">>)

BlobMalformed == Str(<<"?">>)

ClientInfoBlobs == {BlobA, BlobB, BlobMalformed}

\* buildClientInfo(rawClientInfo, crypto): the decoded {uid, utid}, or a
\* decode failure signalled upward.
buildClientInfo(rawClientInfo) ==
    CASE rawClientInfo = BlobA ->
            [ok |-> TRUE, uid |-> Str(<<"U", "1">>), utid |-> Str(<<"t", "1">>)]
      [] rawClientInfo = BlobB ->
            [ok |-> TRUE, uid |-> Str(<<"u", "2">>), utid |-> EmptyString]
      [] OTHER ->
            [ok |-> FALSE, uid |-> Undefined, utid |-> Undefined]

Error(name) == [t |-> "error", s |-> <<>>, name |-> name]

\* An Authority, reduced to the one property the factories read.
Authority(host) ==
    [canonicalAuthorityUrlComponents |-> [HostNameAndPort |-> host]]

AuthorityHosts ==
    {Str(LoginWindowsNet),
     Str([LoginWindowsNet EXCEPT ![1] = "L"]),
     Str(LoginMicrosoftOnlineCom),
     Str(<<"f", "s", ".", "x", ":", "8">>)}

Authorities == {Authority(h) : h \in AuthorityHosts}

\* A decoded IdToken: an object with its claims; a missing claim is undefined.
IdToken(claims) == [t |-> "object", s |-> <<>>, claims |-> claims]

IdTokenClaims ==
    [tid : {Undefined, Str(<<"T", "i", "d">>)},
     oid : {Undefined, EmptyString, Str(<<"o", "i", "d">>)},
     sid : {Undefined, EmptyString, Str(<<"s", "i", "d", "1", "2", "3">>)},
     preferred_username : {Undefined, Str(<<"p", "@", "x">>)},
     name : {Undefined, Str(<<"N", "m">>)},
     sub : {Undefined, EmptyString, Str(<<"S", "u", "b">>)},
     upn : {Undefined, Str(<<"u", "@", "x">>)}]

\* What a caller can pass as idToken: a decoded token, or none.
IdTokens == {IdToken(c) : c \in IdTokenClaims} \cup {Null, Undefined}

\* What a caller can pass as policy.
Policies == {Null, Undefined, EmptyString, Str(<<"P", "1">>)}

\* ------------------------------------------------------------- construction

\* createAccount's homeAccountId with the policy tested for truthiness.
createAccount_homeAccountId_IfPolicy(clientInfoObj, policy) ==
    LET homeAccountId == ToString(clientInfoObj.uid) \o CLIENT_INFO_SEPARATOR
                            \o ToString(clientInfoObj.utid)
    IN  IF ~IsFalsy(policy)
        THEN Str(homeAccountId \o CACHE_KEY_SEPARATOR \o ToString(policy))
        ELSE Str(homeAccountId)

\* createAccount: the homeAccountId assigned, `${uid}${sep}${utid}` with the
\* policy appended when policy !== null.
createAccount_homeAccountId(clientInfoObj, policy) ==
    LET homeAccountId == ToString(clientInfoObj.uid) \o CLIENT_INFO_SEPARATOR
                            \o ToString(clientInfoObj.utid)
    IN  IF policy # Null
        THEN Str(homeAccountId \o CACHE_KEY_SEPARATOR \o ToString(policy))
        ELSE Str(homeAccountId)

\* createAccount: the environment assigned.
createAccount_environment(authority) ==
    LET reqEnvironment == authority.canonicalAuthorityUrlComponents.HostNameAndPort
    IN  IF reqEnvironment \in EnvironmentAliases
        THEN PreferredCacheEnvironment
        ELSE reqEnvironment

\* createAccount's localAccountId with the session id tried first.
createAccount_localAccountId_SidFirst(idToken) ==
    IF ~StringUtilsIsEmpty(idToken.claims.sid)
    THEN idToken.claims.sid
    ELSE idToken.claims.oid

\* createAccount: the localAccountId assigned.
createAccount_localAccountId(idToken) ==
    IF ~StringUtilsIsEmpty(idToken.claims.oid)
    THEN idToken.claims.oid
    ELSE idToken.claims.sid

\* static AccountEntity.createAccount: the record returned, or the error
\* thrown.
createAccount(clientInfo, authority, idToken, policy) ==
    LET account1 == [NewAccountEntity EXCEPT
                        !.authorityType = MSSTS_ACCOUNT_TYPE,
                        !.clientInfo = clientInfo]
        clientInfoObj == buildClientInfo(clientInfo)
    IN  IF ~clientInfoObj.ok THEN Thrown(Error("ClientAuthError"))
        ELSE
        LET account2 == [account1 EXCEPT
                            !.homeAccountId =
                                createAccount_homeAccountId(clientInfoObj, policy),
                            !.environment = createAccount_environment(authority)]
        IN  \* account.realm = idToken.claims.tid reads a property of idToken
            IF IsNullish(idToken) THEN Thrown(Error("TypeError"))
            ELSE
            LET account3 == [account2 EXCEPT !.realm = idToken.claims.tid]
            IN  IF ~IsFalsy(idToken)
                THEN Returned([account3 EXCEPT
                        !.localAccountId = createAccount_localAccountId(idToken),
                        !.username = idToken.claims.preferred_username,
                        !.name = idToken.claims.name])
                ELSE Returned(account3)

\* createADFSAccount's environment with the alias normalization of
\* createAccount applied.
createADFSAccount_environment_Normalized(authority) ==
    createAccount_environment(authority)

\* createADFSAccount: the environment assigned.
createADFSAccount_environment(authority) ==
    authority.canonicalAuthorityUrlComponents.HostNameAndPort

\* static AccountEntity.createADFSAccount: the record returned, or the error
\* thrown.
createADFSAccount(authority, idToken) ==
    LET account1 == [NewAccountEntity EXCEPT
                        !.authorityType = ADFS_ACCOUNT_TYPE]
    IN  \* account.homeAccountId = idToken.claims.sub reads a property of idToken
        IF IsNullish(idToken) THEN Thrown(Error("TypeError"))
        ELSE Returned([account1 EXCEPT
                !.homeAccountId = idToken.claims.sub,
                !.environment = createADFSAccount_environment(authority),
                !.username = idToken.claims.upn])

\* ------------------------------------------------------------------ actions

\* The token-response handler invokes createAccount once and keeps the record
\* it returns; an error thrown surfaces to the handler's caller and ends the
\* exchange.
CreateAccount ==
    /\ op = "init"
    /\ account = NoAccount
    /\ \E clientInfo \in ClientInfoBlobs, authority \in Authorities,
          idToken \in IdTokens, policy \in Policies :
          LET r == createAccount(clientInfo, authority, idToken, policy)
          IN  /\ op' = "createAccount"
              /\ args' = [clientInfo |-> clientInfo, authority |-> authority,
                          idToken |-> idToken, policy |-> policy]
              /\ result' = r
              /\ account' = IF r.kind = "return" THEN r.val ELSE account
    /\ UNCHANGED log

\* The same for createADFSAccount.
CreateADFSAccount ==
    /\ op = "init"
    /\ account = NoAccount
    /\ \E authority \in Authorities, idToken \in IdTokens :
          LET r == createADFSAccount(authority, idToken)
          IN  /\ op' = "createADFSAccount"
              /\ args' = [authority |-> authority, idToken |-> idToken]
              /\ result' = r
              /\ account' = IF r.kind = "return" THEN r.val ELSE account
    /\ UNCHANGED log

GenerateAccountId ==
    /\ account # NoAccount
    /\ op' = "generateAccountId"
    /\ args' = NoArgs
    /\ result' = Returned(generateAccountId(account))
    /\ UNCHANGED <<account, log>>

\* generateAccountKey normalising the record's realm in place before joining.
GenerateAccountKey_NormalisingRealm ==
    /\ account # NoAccount
    /\ op' = "generateAccountKey"
    /\ args' = NoArgs
    /\ result' = Returned(generateAccountKey(account))
    /\ account' = [account EXCEPT !.realm = OrEmpty(account.realm)]
    /\ UNCHANGED log

GenerateAccountKey ==
    /\ account # NoAccount
    /\ op' = "generateAccountKey"
    /\ args' = NoArgs
    /\ result' = Returned(generateAccountKey(account))
    /\ UNCHANGED <<account, log>>

GenerateType ==
    /\ account # NoAccount
    /\ Len(log) + Len(generateType(account).logged) <= MaxLog
    /\ op' = "generateType"
    /\ args' = NoArgs
    /\ result' = Returned(generateType(account).value)
    /\ log' = log \o generateType(account).logged
    /\ UNCHANGED account

GetAccountInfo ==
    /\ account # NoAccount
    /\ op' = "getAccountInfo"
    /\ args' = NoArgs
    /\ result' = Returned(getAccountInfo(account))
    /\ UNCHANGED <<account, log>>

\* Usernames a caller of the static key derivation can put in the tuple.
Usernames == {Undefined, Str(<<"x", "@", "Y">>)}

\* The storage layer derives the key of the record's identity tuple through
\* the static entry point, with a username of its choice.
GenerateAccountCacheKey ==
    /\ account # NoAccount
    /\ \E username \in Usernames :
          LET accountInterface ==
                [homeAccountId |-> account.homeAccountId,
                 environment |-> account.environment,
                 tenantId |-> account.realm,
                 username |-> username]
          IN  /\ op' = "generateAccountCacheKey"
              /\ args' = [accountInterface |-> accountInterface]
              /\ result' = Returned(generateAccountCacheKey(accountInterface))
    /\ UNCHANGED <<account, log>>

\* ----------------------------------------------------------- specifications

\* The life of one record: nothing constructed yet, then a factory, then the
\* record's operations.
Init ==
    /\ account = NoAccount
    /\ op = "init"
    /\ args = NoArgs
    /\ result = NoResult
    /\ log = <<>>

Next ==
    \/ CreateAccount
    \/ CreateADFSAccount
    \/ GenerateAccountId
    \/ GenerateAccountKey
    \/ GenerateType
    \/ GetAccountInfo

Spec == Init /\ [][Next]_vars

RECURSIVE StringsOver(_, _)
\* The character sequences over chars of length at most n.
StringsOver(chars, n) ==
    IF n = 0 THEN {<<>>}
    ELSE LET shorter == StringsOver(chars, n - 1)
         IN  shorter \cup {Append(w, c) : w \in shorter, c \in chars}

\* Field values of the records the key derivation is applied to: a record
\* read back from the cache can hold any of them.
HomeAccountIds == {Undefined} \cup {Str(w) : w \in StringsOver({"h", "H"}, MaxLen)}

Environments == {Undefined} \cup {Str(w) : w \in StringsOver({"e", "E"}, MaxLen)}

Realms == {Undefined, Null, EmptyString, Str(<<"T", "n">>)}

AuthorityTypes ==
    {Undefined, MSSTS_ACCOUNT_TYPE, ADFS_ACCOUNT_TYPE, MSAV1_ACCOUNT_TYPE,
     GENERIC_ACCOUNT_TYPE, Str(<<"m", "s", "s", "t", "s">>)}

KeyAccounts ==
    {[NewAccountEntity EXCEPT !.homeAccountId = h, !.environment = e,
                              !.realm = r, !.username = u,
                              !.authorityType = ty] :
        h \in HomeAccountIds, e \in Environments, r \in Realms,
        u \in Usernames, ty \in AuthorityTypes}

\* Key derivation and classification over every record of the bounded domain.
KeyInit ==
    /\ account \in KeyAccounts
    /\ op = "init"
    /\ args = NoArgs
    /\ result = NoResult
    /\ log = <<>>

KeyNext ==
    \/ GenerateAccountId
    \/ GenerateAccountKey
    \/ GenerateAccountCacheKey
    \/ GenerateType
    \/ GetAccountInfo

KeySpec == KeyInit /\ [][KeyNext]_vars

\* ------------------------------------------------------------------- claims

\* The characters a key component contributes: those of a string, none of an
\* absent value.
TextOf(v) == IF IsString(v) THEN v.s ELSE <<>>

NonEmpty(v) == IsString(v) /\ Len(v.s) > 0

\* The identity tuple the last key derivation was applied to.
KeyTuple ==
    IF op = "generateAccountCacheKey"
    THEN args.accountInterface
    ELSE [homeAccountId |-> account.homeAccountId,
          environment |-> account.environment,
          tenantId |-> account.realm,
          username |-> account.username]

KeyOps == {"generateAccountKey", "generateAccountCacheKey"}

\* C1: the account key, from the static entry point on a tuple and from
\* generateAccountKey on a record, is the lower-cased join of homeAccountId,
\* environment and realm with "-"; with the realm absent or empty the second
\* separator is still there, so the key ends in "-".
C1_AccountKeyIsLowerJoin ==
    op \in KeyOps =>
        /\ result = Returned(Str(ToLowerCase(
                TextOf(KeyTuple.homeAccountId) \o <<"-">>
                \o TextOf(KeyTuple.environment) \o <<"-">>
                \o TextOf(KeyTuple.tenantId))))
        /\ IsFalsy(KeyTuple.tenantId) =>
                /\ Len(result.val.s) >= 2
                /\ result.val.s[Len(result.val.s)] = "-"

C1_Witness ==
    /\ op = "generateAccountKey"
    /\ account.homeAccountId = Str(<<"H", "h">>)
    /\ account.environment = Str(<<"E">>)
    /\ account.realm = Undefined
    /\ result.val = Str(<<"h", "h", "-", "e", "-">>)

\* C2: the account key does not depend on username: a key derivation that
\* follows another on the same homeAccountId, environment and realm returns
\* the identical key, whatever username either was given.
C2_KeyIgnoresUsername ==
    [][(op \in KeyOps /\ op' \in KeyOps) => result'.val = result.val]_vars

C2_Witness ==
    /\ op = "generateAccountCacheKey"
    /\ account.username = Undefined
    /\ args.accountInterface.username = Str(<<"x", "@", "Y">>)
    /\ args.accountInterface.homeAccountId = Str(<<"h">>)
    /\ result.val = Str(<<"h", "-", "e", "-", "t", "n">>)

KnownAuthorityTypes ==
    {MSSTS_ACCOUNT_TYPE, ADFS_ACCOUNT_TYPE, MSAV1_ACCOUNT_TYPE,
     GENERIC_ACCOUNT_TYPE}

\* The tag the schema pairs with each of the four authority types.
TagOf(ty) ==
    CASE ty = MSSTS_ACCOUNT_TYPE -> Num(CacheType.MSSTS)
      [] ty = ADFS_ACCOUNT_TYPE -> Num(CacheType.ADFS)
      [] ty = MSAV1_ACCOUNT_TYPE -> Num(CacheType.MSA)
      [] ty = GENERIC_ACCOUNT_TYPE -> Num(CacheType.GENERIC)

\* C3: generateType never throws; on each of the four authority types it
\* returns that type's tag, no two types share a tag and nothing is logged;
\* on any other authorityType, an unset one included, it returns null and
\* writes one diagnostic entry to the console.
C3_GenerateTypeTotal ==
    [][op' = "generateType" =>
        /\ result'.kind = "return"
        /\ IF account.authorityType \in KnownAuthorityTypes
           THEN /\ result'.val = TagOf(account.authorityType)
                /\ result'.val # Null
                /\ \A other \in KnownAuthorityTypes \ {account.authorityType} :
                      generateType([account EXCEPT !.authorityType = other]).value
                         # result'.val
                /\ log' = log
           ELSE /\ result'.val = Null
                /\ log' = Append(log, UnexpectedAccountType)]_vars

C3_Witness ==
    /\ op = "generateType"
    /\ account.authorityType = Undefined
    /\ result = Returned(Null)
    /\ log = <<UnexpectedAccountType, UnexpectedAccountType>>

\* C4: createAccount's homeAccountId is uid + ":" + utid when policy is null,
\* and uid + ":" + utid + "-" + policy for every other policy, the empty
\* string included (the homeAccountId then ends in "-").
C4_HomeAccountIdPolicySuffix ==
    (op = "createAccount" /\ result.kind = "return") =>
        LET clientInfoObj == buildClientInfo(args.clientInfo)
            base == clientInfoObj.uid.s \o <<":">> \o clientInfoObj.utid.s
            homeAccountId == result.val.homeAccountId
        IN  /\ args.policy = Null => homeAccountId = Str(base)
            /\ args.policy # Null =>
                    homeAccountId = Str(base \o <<"-">> \o ToString(args.policy))
            /\ args.policy = Str(<<"P", "1">>) =>
                    homeAccountId = Str(base \o <<"-", "P", "1">>)
            /\ args.policy = EmptyString =>
                    homeAccountId = Str(Append(base, "-"))

C4_Witness ==
    /\ op = "createAccount"
    /\ args.policy = EmptyString
    /\ result.kind = "return"
    /\ result.val.homeAccountId = Str(<<"U", "1", ":", "t", "1", "-">>)

\* The host the authority of the last factory call names.
ArgsHost == args.authority.canonicalAuthorityUrlComponents.HostNameAndPort

\* C5: createAccount sets environment to the preferred cache host when the
\* authority's host is an environment alias and to the host unchanged
\* otherwise (login.windows.net becomes login.microsoftonline.com);
\* createADFSAccount sets it to the authority's host unchanged, alias or not.
C5_AliasNormalizationModernOnly ==
    /\ (op = "createAccount" /\ result.kind = "return") =>
            /\ ArgsHost \in EnvironmentAliases =>
                    result.val.environment = PreferredCacheEnvironment
            /\ ArgsHost \notin EnvironmentAliases =>
                    result.val.environment = ArgsHost
            /\ ArgsHost = Str(LoginWindowsNet) =>
                    result.val.environment = Str(LoginMicrosoftOnlineCom)
    /\ (op = "createADFSAccount" /\ result.kind = "return") =>
            result.val.environment = ArgsHost

C5_Witness ==
    /\ op = "createADFSAccount"
    /\ ArgsHost = Str(LoginWindowsNet)
    /\ result.kind = "return"
    /\ result.val.environment = Str(LoginWindowsNet)

\* C6: with a decoded token, createAccount's localAccountId is the oid claim
\* when that claim is a non-empty string and the sid claim otherwise; a
\* non-empty oid is never replaced by the sid.
C6_LocalAccountIdFallback ==
    (op = "createAccount" /\ result.kind = "return") =>
        LET claims == args.idToken.claims
        IN  IF NonEmpty(claims.oid)
            THEN result.val.localAccountId = claims.oid
            ELSE result.val.localAccountId = claims.sid

C6_Witness ==
    /\ op = "createAccount"
    /\ result.kind = "return"
    /\ args.idToken.claims.oid = EmptyString
    /\ args.idToken.claims.sid = Str(<<"s", "i", "d", "1", "2", "3">>)
    /\ result.val.localAccountId = Str(<<"s", "i", "d", "1", "2", "3">>)

\* Two values that differ at most in letter case.
SameIgnoringCase(v, w) ==
    /\ v.t = w.t
    /\ Len(v.s) = Len(w.s)
    /\ \A i \in 1..Len(v.s) : LowerChar(v.s[i]) = LowerChar(w.s[i])

\* The records that differ from a at most in the letter case of homeAccountId
\* and environment.
CaseVariants(a) ==
    {[a EXCEPT !.homeAccountId = h, !.environment = e] :
        h \in {x \in HomeAccountIds : SameIgnoringCase(x, a.homeAccountId)},
        e \in {x \in Environments : SameIgnoringCase(x, a.environment)}}

\* C7: for non-empty homeAccountId h and environment e, generateAccountId
\* returns lower(h + "-" + e), and every record that differs only in the
\* letter case of h and e gets the same account id and the same account key.
C7_AccountIdCaseInsensitive ==
    (NonEmpty(account.homeAccountId) /\ NonEmpty(account.environment)) =>
        /\ op = "generateAccountId" =>
            /\ result = Returned(Str(ToLowerCase(
                    account.homeAccountId.s \o <<"-">> \o account.environment.s)))
            /\ \A b \in CaseVariants(account) :
                    generateAccountId(b) = result.val
        /\ op = "generateAccountKey" =>
            \A b \in CaseVariants(account) : generateAccountKey(b) = result.val

C7_Witness ==
    /\ op = "generateAccountId"
    /\ account.homeAccountId = Str(<<"h", "H">>)
    /\ account.environment = Str(<<"E", "e">>)
    /\ result.val = Str(<<"h", "h", "-", "e", "e">>)

Factories == {"createAccount", "createADFSAccount"}

\* C8: every record createAccount or createADFSAccount returns has a
\* non-empty homeAccountId and a non-empty environment.
C8_ConstructedIdsNonEmpty ==
    (op \in Factories /\ result.kind = "return") =>
        /\ NonEmpty(result.val.homeAccountId)
        /\ NonEmpty(result.val.environment)

\* C9: createAccount with no decoded token and a decodable client-info blob
\* completes and returns a record with authorityType, homeAccountId and
\* environment populated and localAccountId, username and name unset.
C9_NoTokenStillConstructs ==
    (/\ op = "createAccount"
     /\ IsNullish(args.idToken)
     /\ buildClientInfo(args.clientInfo).ok) =>
        /\ result.kind = "return"
        /\ result.val.authorityType = MSSTS_ACCOUNT_TYPE
        /\ NonEmpty(result.val.homeAccountId)
        /\ NonEmpty(result.val.environment)
        /\ result.val.localAccountId = Undefined
        /\ result.val.username = Undefined
        /\ result.val.name = Undefined

RecordOps ==
    {"generateAccountId", "generateAccountKey", "generateType", "getAccountInfo"}

\* C10: the record a factory returns carries the factory's authorityType
\* (MSSTS from createAccount, ADFS from createADFSAccount), and
\* generateAccountId, generateAccountKey, generateType and getAccountInfo
\* leave every field of the record as it was, so the authorityType set at
\* construction stays.
C10_AuthorityTypeSetOnce ==
    /\ [][(op' = "createAccount" /\ result'.kind = "return") =>
            /\ account' = result'.val
            /\ account'.authorityType = MSSTS_ACCOUNT_TYPE]_vars
    /\ [][(op' = "createADFSAccount" /\ result'.kind = "return") =>
            /\ account' = result'.val
            /\ account'.authorityType = ADFS_ACCOUNT_TYPE]_vars
    /\ [][op' \in RecordOps => account' = account]_vars
    /\ [][account # NoAccount =>
            account'.authorityType = account.authorityType]_vars

C10_Witness ==
    /\ op = "generateAccountKey"
    /\ account.authorityType = ADFS_ACCOUNT_TYPE
    /\ account.realm = Undefined
    /\ result.val = Str(<<"s", "u", "b", "-", "f", "s", ".", "x", ":", "8", "-">>)

====
